---- MODULE Spec2Model ----
(***************************************************************************)
(* A model of src/exporter.py: the export of the draw calls of a captured  *)
(* frame to FBX documents.  One export request (export_wrap) runs the      *)
(* Exporter on the replay thread, draw call by draw call, and then hands   *)
(* the result to the UI thread.                                            *)
(*                                                                         *)
(* Numbers.  A Python float that went through "%.4f" is modelled as a      *)
(* record [neg, mag]: its sign and its magnitude in units of 1/10000 (the  *)
(* sign is kept apart because -0.0 prints as "-0.0").  Before the rounding *)
(* a component is an exact fraction [num, den].  The model covers the      *)
(* integer-typed component formats (UInt, SInt, UNorm, SNorm, UScaled,     *)
(* SScaled) of byte width 1 and 2 on a little-endian host; the Float       *)
(* formats and the 4 and 8 byte widths are outside it.  The textures of a   *)
(* draw call are saved when is_save_texture is set; r.SaveTexture is known *)
(* by the file names it is called with.  export_constants has no caller in *)
(* the module (lines 304-305 are comments): it is a step of its own, that  *)
(* whoever holds the Exporter may take once the Exporter is constructed.   *)
(* Its floats are exact fractions [num, den] with a power of two as den.   *)
(***************************************************************************)
EXTENDS Integers, Sequences, FiniteSets, TLC

VARIABLES
    capture,          \* the captured frame the replay controller r answers from
    startDrawcallId,  \* export_wrap's arguments
    endDrawcallId,
    is_save_texture,
    pc,               \* where the request is
    exc,              \* the exception that escaped _replay_callback, or None
    result,           \* Exporter.result
    drawcalls,        \* the local table of Exporter.__init__ (set of ids in it)
    drawcallId,       \* the loop variable of Exporter.__init__
    frameEvents,      \* the calls of r.SetFrameEvent, in order
    bufferFetches,    \* the calls of r.GetBufferData, in order
    unpackCalls,      \* the calls of unpackData made by export_fbx, in order
    files,            \* the file system under self.path: file name -> content
    dirs,             \* the directories made under self.path
    textureSaves,     \* the file names r.SaveTexture was called with, in order
    saved_textures,   \* self.saved_textures
    constantsExc,     \* the exception the last call of export_constants raised, or None
    writes,           \* the files written, in order
    meshInputs,       \* export_fbx's argument
    indices,          \* export_fbx: the resolved index sequence
    pos,              \* export_fbx: how many occurrences of indices the loop has handled
    idx_list,         \* export_fbx: the compact index list
    idx2newIdx,       \* export_fbx: original index -> compact index
    newIdx,           \* export_fbx: the next compact index
    vertex_data,      \* self.vertex_data: name -> ordered dictionary (sequence of [k, v])
    value_dict,       \* self.value_dict: name -> list of values
    idx_data,         \* self.idx_data (the compact index list as text items)
    idx_len,          \* self.idx_len
    layers,           \* self.LayerElement*: attribute name -> fragment, "" being <<>>
    uiQueue,          \* the calls handed to InvokeOntoUIThread and not yet run
    finished          \* the values finished_callback was called with, in order

vars == <<capture, startDrawcallId, endDrawcallId, is_save_texture, dirs,
          textureSaves, saved_textures, constantsExc, pc, exc, result, drawcalls,
          drawcallId, frameEvents, bufferFetches, unpackCalls, files, writes,
          meshInputs, indices, pos, idx_list, idx2newIdx, newIdx, vertex_data,
          value_dict, idx_data, idx_len, layers, uiQueue, finished>>

None == "None"
NullId == <<"Null", 0>>   \* rd.ResourceId.Null()

(***************************************************************************)
(* Bounds of the model.                                                    *)
(***************************************************************************)
MaxIndices == 4     \* longest index sequence of the exhaustive family
MaxVertex == 2      \* largest value stored in an index buffer
MaxDraws == 3       \* draw-call ids of the capture are 1..MaxDraws
MaxBase == 1        \* largest baseVertex of a draw call
MaxJsonWrites == 2  \* export_constants is not called once it wrote this often

(***************************************************************************)
(* Generic helpers.                                                        *)
(***************************************************************************)
RECURSIVE Pow2(_)
Pow2(n) == IF n = 0 THEN 1 ELSE 2 * Pow2(n - 1)

Range(s) == {s[k] : k \in DOMAIN s}

RECURSIVE Flatten(_)
\* [x for xs in seqs for x in xs]
Flatten(seqs) == IF seqs = <<>> THEN <<>> ELSE Head(seqs) \o Flatten(Tail(seqs))

\* s[from:from+n] of Python, 0-based, clamped to the sequence
Slice(s, from, n) ==
    LET lo == IF from > Len(s) THEN Len(s) ELSE from
        hi == IF lo + n > Len(s) THEN Len(s) ELSE lo + n
    IN  [k \in 1..(hi - lo) |-> s[lo + k]]

(***************************************************************************)
(* struct.unpack_from: little-endian integers of 1 or 2 bytes.             *)
(***************************************************************************)
RECURSIVE UnsignedLE(_)
UnsignedLE(bytes) ==
    IF bytes = <<>> THEN 0 ELSE Head(bytes) + 256 * UnsignedLE(Tail(bytes))

SignedLE(bytes) ==
    LET u == UnsignedLE(bytes)
        bits == 8 * Len(bytes)
    IN  IF u >= Pow2(bits - 1) THEN u - Pow2(bits) ELSE u

\* struct.unpack_from(str(count) + char, data, offset): [ok, value]
unpack_from(count, signed, width, data, offset) ==
    IF Len(data) - offset < count * width
    THEN [ok |-> FALSE, value |-> <<>>]
    ELSE [ok |-> TRUE,
          value |-> [c \in 1..count |->
                        LET b == Slice(data, offset + (c - 1) * width, width)
                        IN  IF signed THEN SignedLE(b) ELSE UnsignedLE(b)]]

(***************************************************************************)
(* Floats.                                                                 *)
(***************************************************************************)
Frac(n, d) == [num |-> n, den |-> d]
Flt(neg, mag) == [neg |-> neg, mag |-> mag]
Scale == 10000

\* float("%.4f" % x) for the fraction x: round to nearest, ties to even
Keep4(x) ==
    LET a == IF x.num < 0 THEN -x.num ELSE x.num
        q == (a * Scale) \div x.den
        r == (a * Scale) % x.den
        up == (2 * r > x.den) \/ (2 * r = x.den /\ q % 2 = 1)
    IN  Flt(x.num < 0, IF up THEN q + 1 ELSE q)

\* the digits of the fractional part, trailing zeros dropped, at least one kept
FracDigits(m) ==
    LET d1 == m \div 1000
        d2 == (m \div 100) % 10
        d3 == (m \div 10) % 10
        d4 == m % 10
    IN  IF d4 # 0 THEN ToString(d1) \o ToString(d2) \o ToString(d3) \o ToString(d4)
        ELSE IF d3 # 0 THEN ToString(d1) \o ToString(d2) \o ToString(d3)
        ELSE IF d2 # 0 THEN ToString(d1) \o ToString(d2)
        ELSE ToString(d1)

\* str(v) for a float v
StrFloat(v) ==
    (IF v.neg THEN "-" ELSE "") \o ToString(v.mag \div Scale) \o "."
        \o FracDigits(v.mag % Scale)

\* str(n) for an int n
StrInt(n) == ToString(n)

(***************************************************************************)
(* unpackData (lines 106-147): [exc, value].                               *)
(***************************************************************************)
IntTypes == {"UInt", "SInt", "UNorm", "SNorm", "UScaled", "SScaled"}
SignedTypes == {"SInt", "SNorm", "SScaled"}

\* lines 129-138: the components as fractions
Normalised(fmt, value) ==
    LET bits == fmt.compByteWidth * 8
        maxNeg == -(Pow2(bits) \div 2)
    IN  [c \in DOMAIN value |->
            IF fmt.compType = "UNorm" THEN Frac(value[c], Pow2(bits) - 1)
            ELSE IF fmt.compType = "SNorm"
            THEN IF value[c] = maxNeg THEN Frac(value[c], 1)
                 ELSE Frac(value[c], -(maxNeg - 1))
            ELSE Frac(value[c], 1)]

\* lines 141-142: BGRA order becomes RGBA
Swizzled(fmt, value) ==
    IF fmt.bgra THEN <<value[3], value[2], value[1], value[4]>> ELSE value

\* lines 144-145: four digits are kept
Rounded(value) == [c \in DOMAIN value |-> Keep4(value[c])]

\* lines 129-147 on the unpacked components u
Converted(fmt, u) ==
    IF ~u.ok THEN [exc |-> "struct.error", value |-> <<>>]
    ELSE IF fmt.bgra /\ fmt.compCount < 4
    THEN [exc |-> "IndexError", value |-> <<>>]
    ELSE [exc |-> None,
          value |-> Rounded(Swizzled(fmt, Normalised(fmt, u.value)))]

unpackData(fmt, data) ==
    IF fmt.special
    THEN [exc |-> "RuntimeError: Packed formats are not supported!", value |-> <<>>]
    ELSE Converted(fmt, unpack_from(fmt.compCount, fmt.compType \in SignedTypes,
                                    fmt.compByteWidth, data, 0))

(***************************************************************************)
(* The captures the requests are run on.  A draw call is described by a    *)
(* configuration: its vertex attributes (laid out one after another in one *)
(* interleaved vertex buffer), its index buffer and its draw parameters.   *)
(* The bytes of a vertex buffer follow a pattern (seed + step * position). *)
(***************************************************************************)
Format(compType, compCount, compByteWidth, special, bgra) ==
    [compType |-> compType, compCount |-> compCount,
     compByteWidth |-> compByteWidth, special |-> special, bgra |-> bgra]

Attr(name, used, perInstance, format) ==
    [name |-> name, used |-> used, perInstance |-> perInstance, format |-> format]

AttrNames == <<"in_POSITION0", "in_NORMAL0", "in_TANGENT0", "in_COLOR0",
               "in_TEXCOORD0", "in_TEXCOORD1">>

\* the usual format of each attribute: 8-bit components
UsualFormat(name) ==
    IF name \in {"in_POSITION0", "in_NORMAL0"} THEN Format("SInt", 3, 1, FALSE, FALSE)
    ELSE IF name = "in_TANGENT0" THEN Format("SNorm", 4, 1, FALSE, FALSE)
    ELSE IF name = "in_COLOR0" THEN Format("UNorm", 4, 1, FALSE, FALSE)
    ELSE Format("UNorm", 2, 1, FALSE, FALSE)

Pattern(seed, step, len) == [p \in 1..len |-> (seed + step * (p - 1)) % 256]

SizeOf(format) == format.compCount * format.compByteWidth

RECURSIVE SumSizes(_)
SumSizes(attrs) ==
    IF attrs = <<>> THEN 0 ELSE SizeOf(Head(attrs).format) + SumSizes(Tail(attrs))

Config(attrs, indexed, ibBound, ibBytes, indexByteWidth, indexOffset, baseVertex,
       numIndices, seed, step) ==
    [attrs |-> attrs, indexed |-> indexed, ibBound |-> ibBound, ibBytes |-> ibBytes,
     indexByteWidth |-> indexByteWidth, indexOffset |-> indexOffset,
     baseVertex |-> baseVertex, numIndices |-> numIndices, seed |-> seed,
     step |-> step]

IbId(id) == <<"ib", id>>
VbId(id) == <<"vb", id>>
EventId(id) == 10 * id

\* the vertices a vertex buffer holds: enough for every index of the model
NumVertices == MaxVertex + MaxBase + MaxIndices + 2

StateOf(id, cfg) ==
    [ib |-> [resourceId |-> IF cfg.ibBound THEN IbId(id) ELSE NullId, byteOffset |-> 0],
     vbs |-> <<[resourceId |-> VbId(id), byteOffset |-> 0,
                byteStride |-> SumSizes(cfg.attrs)]>>,
     attrs |-> [n \in DOMAIN cfg.attrs |->
                  [name |-> cfg.attrs[n].name, used |-> cfg.attrs[n].used,
                   perInstance |-> cfg.attrs[n].perInstance, vertexBuffer |-> 0,
                   byteOffset |-> SumSizes(SubSeq(cfg.attrs, 1, n - 1)),
                   format |-> cfg.attrs[n].format]]]

\* draw call id is a child of the root draw call before it
ChildrenOf(id, isChild) ==
    LET last == CHOOSE m \in id..Len(isChild) :
                    /\ \A k \in (id + 1)..m : isChild[k]
                    /\ (m = Len(isChild) \/ ~isChild[m + 1])
    IN  [k \in 1..(last - id) |-> id + k]

RootIds(isChild) == {id \in DOMAIN isChild : ~isChild[id]}

RECURSIVE SortedSeq(_)
SortedSeq(S) ==
    IF S = {} THEN <<>>
    ELSE LET m == CHOOSE x \in S : \A y \in S : x <= y
         IN  <<m>> \o SortedSeq(S \ {m})

TexId(n) == <<"tex", n>>

\* a texture of r.GetTextures()
Texture(n, arraysize) == [resourceId |-> TexId(n), arraysize |-> arraysize]

\* the shader stages export_constants is asked for
Stages == {"Vertex", "Fragment", "Compute"}

\* no constant block is bound to any stage
NoConstants == [stage \in Stages |-> <<>>]

\* the captured frame: which draw calls are children, what each draws, the
\* textures of the frame, per draw call the resources of each read-only
\* binding of the fragment stage and, per stage, the constant blocks
TexturedCaptureOf(isChild, cfgs, textures, bound) ==
    [isChild |-> isChild, cfgs |-> cfgs, textures |-> textures, bound |-> bound,
     constants |-> NoConstants]

\* a captured frame with constant blocks bound, per stage
WithConstants(cap, constants) == [cap EXCEPT !.constants = constants]

\* a captured frame without textures
CaptureOf(isChild, cfgs) ==
    TexturedCaptureOf(isChild, cfgs, <<>>, [id \in DOMAIN cfgs |-> <<>>])

\* the draw call of an id
DrawOf(cap, id) ==
    [eventId |-> EventId(id), drawcallId |-> id,
     children |-> IF cap.isChild[id] THEN <<>> ELSE ChildrenOf(id, cap.isChild),
     numIndices |-> cap.cfgs[id].numIndices, indexed |-> cap.cfgs[id].indexed,
     indexByteWidth |-> cap.cfgs[id].indexByteWidth,
     baseVertex |-> cap.cfgs[id].baseVertex,
     indexOffset |-> cap.cfgs[id].indexOffset, vertexOffset |-> 0]

\* r.GetDrawcalls(): the root draw calls
GetDrawcalls(cap) ==
    LET roots == SortedSeq(RootIds(cap.isChild))
    IN  [n \in DOMAIN roots |-> DrawOf(cap, roots[n])]

\* the bytes of a buffer
BufferOf(cap, resourceId) ==
    LET cfg == cap.cfgs[resourceId[2]]
    IN  IF resourceId[1] = "ib" THEN cfg.ibBytes
        ELSE Pattern(cfg.seed, cfg.step, SumSizes(cfg.attrs) * NumVertices)

(***************************************************************************)
(* The replay controller.                                                  *)
(***************************************************************************)
\* r.GetBufferData(resourceId, offset, length): length 0 reads to the end
GetBufferData(cap, resourceId, offset, length) ==
    LET bytes == BufferOf(cap, resourceId)
    IN  IF length = 0 THEN Slice(bytes, offset, Len(bytes))
        ELSE Slice(bytes, offset, length)

\* r.SetFrameEvent(eventId, False)
SetFrameEvent(events, eventId) == Append(events, eventId)

\* r.GetPipelineState(): the state at the event set last
GetPipelineState(cap, events) ==
    LET id == CHOOSE i \in DOMAIN cap.cfgs : EventId(i) = events[Len(events)]
    IN  StateOf(id, cap.cfgs[id])

\* r.GetTextures()
GetTextures(cap) == cap.textures

\* state.GetReadOnlyResources(rd.ShaderStage.Fragment, True) at the event set
\* last: the resources of each binding
GetReadOnlyResources(cap, events) ==
    cap.bound[CHOOSE i \in DOMAIN cap.cfgs : EventId(i) = events[Len(events)]]

\* ctx.GetResource(resourceId).name
ResourceName(resourceId) == "albedo" \o ToString(resourceId[2])

FetchCall(resourceId, offset, length) ==
    [resourceId |-> resourceId, offset |-> offset, length |-> length]

(***************************************************************************)
(* getIndices (lines 150-174): [exc, value, fetches].                      *)
(***************************************************************************)
\* a mutant of getIndices: the first index is counted in bytes, not entries
getIndicesByteOffset(cap, mesh) ==
    LET width == IF mesh.indexByteStride = 2 THEN 2
                 ELSE IF mesh.indexByteStride = 4 THEN 4 ELSE 1
    IN  IF mesh.indexResourceId # NullId
        THEN LET ibdata == GetBufferData(cap, mesh.indexResourceId,
                                         mesh.indexByteOffset, 0)
                 u == unpack_from(mesh.numIndices, FALSE, width, ibdata,
                                  mesh.indexOffset)
                 fetch == <<FetchCall(mesh.indexResourceId, mesh.indexByteOffset, 0)>>
             IN  IF ~u.ok
                 THEN [exc |-> "struct.error", value |-> <<>>, fetches |-> fetch]
                 ELSE [exc |-> None,
                       value |-> [k \in DOMAIN u.value |-> u.value[k] + mesh.baseVertex],
                       fetches |-> fetch]
        ELSE [exc |-> None,
              value |-> [k \in 1..mesh.numIndices |-> k - 1],
              fetches |-> <<>>]

getIndices(cap, mesh) ==
    LET width == IF mesh.indexByteStride = 2 THEN 2
                 ELSE IF mesh.indexByteStride = 4 THEN 4 ELSE 1
    IN  IF mesh.indexResourceId # NullId
        THEN LET ibdata == GetBufferData(cap, mesh.indexResourceId,
                                         mesh.indexByteOffset, 0)
                 offset == mesh.indexOffset * mesh.indexByteStride
                 u == unpack_from(mesh.numIndices, FALSE, width, ibdata, offset)
                 fetch == <<FetchCall(mesh.indexResourceId, mesh.indexByteOffset, 0)>>
             IN  IF ~u.ok
                 THEN [exc |-> "struct.error", value |-> <<>>, fetches |-> fetch]
                 ELSE [exc |-> None,
                       value |-> [k \in DOMAIN u.value |-> u.value[k] + mesh.baseVertex],
                       fetches |-> fetch]
        ELSE [exc |-> None,
              value |-> [k \in 1..mesh.numIndices |-> k - 1],
              fetches |-> <<>>]

(***************************************************************************)
(* Exporter.__init__ (lines 186-218).                                      *)
(***************************************************************************)
RECURSIVE DrawcallTable(_)
\* the keys of the dictionary built by lines 196-203
DrawcallTable(root_drawcalls) ==
    IF root_drawcalls = <<>> THEN {}
    ELSE LET draw == Head(root_drawcalls)
         IN  (IF Len(draw.children) > 0 THEN Range(draw.children)
              ELSE {draw.drawcallId})
             \cup DrawcallTable(Tail(root_drawcalls))

\* export_wrap (lines 588-596): the callback is queued on the replay thread
ExportWrap ==
    /\ pc = "idle"
    /\ pc' = "queued"
    /\ UNCHANGED <<capture, startDrawcallId, endDrawcallId, is_save_texture,
                   constantsExc,
                   dirs, textureSaves, saved_textures, exc, result, drawcalls,
                   drawcallId, frameEvents, bufferFetches, unpackCalls, files,
                   writes, meshInputs, indices, pos, idx_list, idx2newIdx, newIdx,
                   vertex_data, value_dict, idx_data, idx_len, layers, uiQueue,
                   finished>>

\* a mutant of ValidateRange: the end of the range is not looked up
ValidateStartOnly(table, start, end) ==
    IF start \notin table THEN "not a valid start drawcall id" ELSE None

\* the two lookups of lines 205-215: the result they leave
ValidateRange(table, start, end) ==
    IF start \notin table THEN "not a valid start drawcall id"
    ELSE IF end \notin table THEN "not a valid end drawcall id"
    ELSE None

\* _replay_callback starts: Exporter.__init__ up to its loop (lines 187-215)
ExporterInit ==
    /\ pc = "queued"
    /\ result' = ValidateRange(DrawcallTable(GetDrawcalls(capture)),
                               startDrawcallId, endDrawcallId)
    /\ saved_textures' = {}
    /\ drawcalls' = DrawcallTable(GetDrawcalls(capture))
    /\ pc' = IF result' = None THEN "loop" ELSE "constructed"
    /\ drawcallId' = IF result' = None THEN startDrawcallId ELSE drawcallId
    /\ UNCHANGED <<capture, startDrawcallId, endDrawcallId, is_save_texture,
                   constantsExc,
                   dirs, textureSaves, exc, frameEvents,
                   bufferFetches, unpackCalls, files, writes, meshInputs, indices,
                   pos, idx_list, idx2newIdx, newIdx, vertex_data, value_dict,
                   idx_data, idx_len, layers, uiQueue, finished>>

(***************************************************************************)
(* export_by_drawcall (lines 300-351) and the head of export_fbx           *)
(* (lines 353-365).                                                        *)
(***************************************************************************)
RECURSIVE get_tex(_, _)
\* get_tex (lines 220-224): <<t>> for the texture t, <<>> for None
get_tex(textures, resid) ==
    IF textures = <<>> THEN <<>>
    ELSE IF Head(textures).resourceId = resid THEN <<Head(textures)>>
    ELSE get_tex(Tail(textures), resid)

\* dir_path of line 234, under self.path
TextureDir == "Textures/"

\* lines 240-249: the file names handed to r.SaveTexture
TextureFiles(tex_name, arraysize) ==
    IF arraysize > 1
    THEN [n \in 1..arraysize |->
             TextureDir \o tex_name \o "_" \o ToString(n - 1) \o ".png"]
    ELSE <<TextureDir \o tex_name \o ".png">>

\* lines 236-249 for the texture get_tex found; st is [exc, dirs, saves, saved]
TextureSaved(tex_name, texture, st) ==
    IF texture = <<>>
    THEN [st EXCEPT !.exc = "AttributeError", !.dirs = @ \cup {TextureDir}]
    ELSE [st EXCEPT !.dirs = @ \cup {TextureDir},
                    !.saves = @ \o TextureFiles(tex_name, texture[1].arraysize)]

\* save_texture (lines 226-249)
save_texture(cap, resourceId, st) ==
    TextureSaved(ResourceName(resourceId), get_tex(GetTextures(cap), resourceId), st)

\* line 257, reached when save_texture returned
TextureNoted(resourceId, st) ==
    IF st.exc # None THEN st ELSE [st EXCEPT !.saved = @ \cup {resourceId}]

\* lines 254-257 for one binding, given by its resources
BindingSaved(cap, resources, st) ==
    IF resources = <<>> THEN [st EXCEPT !.exc = "IndexError"]
    ELSE IF resources[1] # NullId /\ resources[1] \notin st.saved
    THEN TextureNoted(resources[1], save_texture(cap, resources[1], st))
    ELSE st

RECURSIVE save_textures(_, _, _)
\* save_textures (lines 251-257) over the bindings that are left
save_textures(cap, resourceArray, st) ==
    IF resourceArray = <<>> \/ st.exc # None THEN st
    ELSE save_textures(cap, Tail(resourceArray),
                       BindingSaved(cap, Head(resourceArray), st))

MeshData(draw, ib, vbs, attr) ==
    [indexResourceId |-> IF draw.indexed THEN ib.resourceId ELSE NullId,
     indexByteOffset |-> ib.byteOffset,
     indexByteStride |-> draw.indexByteWidth,
     baseVertex |-> draw.baseVertex,
     indexOffset |-> draw.indexOffset,
     numIndices |-> draw.numIndices,
     vertexByteOffset |-> attr.byteOffset + vbs[attr.vertexBuffer + 1].byteOffset
                          + draw.vertexOffset * vbs[attr.vertexBuffer + 1].byteStride,
     format |-> attr.format,
     vertexResourceId |-> vbs[attr.vertexBuffer + 1].resourceId,
     vertexByteStride |-> vbs[attr.vertexBuffer + 1].byteStride,
     name |-> attr.name]

RECURSIVE MeshInputsOf(_, _, _, _)
\* the loop of lines 315-347: [instanced, inputs]
MeshInputsOf(draw, ib, vbs, attrs) ==
    IF attrs = <<>> THEN [instanced |-> FALSE, inputs |-> <<>>]
    ELSE LET attr == Head(attrs)
             rest == MeshInputsOf(draw, ib, vbs, Tail(attrs))
         IN  IF ~attr.used THEN rest
             ELSE IF attr.perInstance THEN [instanced |-> TRUE, inputs |-> <<>>]
             ELSE [instanced |-> rest.instanced,
                   inputs |-> IF rest.instanced THEN <<>>
                              ELSE <<MeshData(draw, ib, vbs, attr)>> \o rest.inputs]

EmptyMap == [x \in {} |-> <<>>]

\* a mutant of FreshCaches: the caches of the draw call before are kept
KeptCaches(old_vertex_data, old_value_dict) ==
    [vertex_data |-> old_vertex_data, value_dict |-> old_value_dict]

\* lines 362-363: the two caches of self are replaced by empty ones
FreshCaches(old_vertex_data, old_value_dict) ==
    [vertex_data |-> EmptyMap, value_dict |-> EmptyMap]

\* one iteration of the loop of lines 217-218, up to the loop of export_fbx
ExportByDrawcall ==
    /\ pc = "loop"
    /\ drawcallId <= endDrawcallId
    /\ drawcallId \in drawcalls
    /\ LET draw == DrawOf(capture, drawcallId)
           state == GetPipelineState(capture, SetFrameEvent(frameEvents, draw.eventId))
           m == MeshInputsOf(draw, state.ib, state.vbs, state.attrs)
           ind == getIndices(capture, m.inputs[1])
           tex == IF is_save_texture
                  THEN save_textures(capture,
                           GetReadOnlyResources(capture,
                               SetFrameEvent(frameEvents, draw.eventId)),
                           [exc |-> None, dirs |-> dirs, saves |-> <<>>,
                            saved |-> saved_textures])
                  ELSE [exc |-> None, dirs |-> dirs, saves |-> <<>>,
                        saved |-> saved_textures]
       IN  /\ frameEvents' = SetFrameEvent(frameEvents, draw.eventId)
           /\ \E t \in {tex} : /\ dirs' = t.dirs
                                /\ textureSaves' = textureSaves \o t.saves
                                /\ saved_textures' = t.saved
           /\ IF tex.exc # None
              THEN /\ exc' = tex.exc
                   /\ pc' = "raised"
                   /\ UNCHANGED <<result, drawcallId, bufferFetches, meshInputs,
                                  indices, pos, idx_list, idx2newIdx, newIdx,
                                  vertex_data, value_dict>>
              ELSE IF m.instanced
              THEN /\ result' = "Instanced properties are not supported!"
                   /\ pc' = "loop"
                   /\ drawcallId' = drawcallId + 1
                   /\ UNCHANGED <<exc, bufferFetches, meshInputs, indices, pos,
                                  idx_list, idx2newIdx, newIdx, vertex_data,
                                  value_dict>>
              ELSE IF m.inputs = <<>>
              THEN /\ exc' = "IndexError"
                   /\ pc' = "raised"
                   /\ meshInputs' = m.inputs
                   /\ UNCHANGED <<result, drawcallId, bufferFetches, indices, pos,
                                  idx_list, idx2newIdx, newIdx, vertex_data,
                                  value_dict>>
              ELSE IF ind.exc # None
              THEN /\ exc' = ind.exc
                   /\ pc' = "raised"
                   /\ meshInputs' = m.inputs
                   /\ bufferFetches' = bufferFetches \o ind.fetches
                   /\ UNCHANGED <<result, drawcallId, indices, pos, idx_list,
                                  idx2newIdx, newIdx, vertex_data, value_dict>>
              ELSE IF ind.value = <<>>
              THEN /\ result' = "Current Draw Call lack of Vertex"
                   /\ pc' = "loop"
                   /\ drawcallId' = drawcallId + 1
                   /\ meshInputs' = m.inputs
                   /\ indices' = ind.value
                   /\ bufferFetches' = bufferFetches \o ind.fetches
                   /\ UNCHANGED <<exc, pos, idx_list, idx2newIdx, newIdx,
                                  vertex_data, value_dict>>
              ELSE /\ pc' = "dedup"
                   /\ meshInputs' = m.inputs
                   /\ indices' = ind.value
                   /\ bufferFetches' = bufferFetches \o ind.fetches
                   /\ pos' = 0
                   /\ idx_list' = <<>>
                   /\ value_dict' = FreshCaches(vertex_data, value_dict).value_dict
                   /\ vertex_data' = FreshCaches(vertex_data, value_dict).vertex_data
                   /\ idx2newIdx' = EmptyMap
                   /\ newIdx' = 0
                   /\ UNCHANGED <<exc, result, drawcallId>>
    /\ UNCHANGED <<capture, startDrawcallId, endDrawcallId, is_save_texture,
                   constantsExc, drawcalls, unpackCalls,
                   files, writes, idx_data, idx_len, layers, uiQueue, finished>>

\* drawcalls[drawcallId] of line 218 for an id that is not in the table
DrawcallKeyError ==
    /\ pc = "loop"
    /\ drawcallId <= endDrawcallId
    /\ drawcallId \notin drawcalls
    /\ pc' = "raised"
    /\ exc' = "KeyError"
    /\ UNCHANGED <<capture, startDrawcallId, endDrawcallId, is_save_texture,
                   constantsExc,
                   dirs, textureSaves, saved_textures, result, drawcalls,
                   drawcallId, frameEvents, bufferFetches, unpackCalls, files,
                   writes, meshInputs, indices, pos, idx_list, idx2newIdx, newIdx,
                   vertex_data, value_dict, idx_data, idx_len, layers, uiQueue,
                   finished>>

\* the loop of lines 217-218 is exhausted: __init__ returns
LoopDone ==
    /\ pc = "loop"
    /\ drawcallId > endDrawcallId
    /\ pc' = "constructed"
    /\ UNCHANGED <<capture, startDrawcallId, endDrawcallId, is_save_texture,
                   constantsExc,
                   dirs, textureSaves, saved_textures, exc, result, drawcalls,
                   drawcallId, frameEvents, bufferFetches, unpackCalls, files,
                   writes, meshInputs, indices, pos, idx_list, idx2newIdx, newIdx,
                   vertex_data, value_dict, idx_data, idx_len, layers, uiQueue,
                   finished>>

(***************************************************************************)
(* export_fbx: the deduplication loop (lines 366-388).                     *)
(***************************************************************************)
\* a defaultdict read d[k]: the default when k is missing
GetOr(d, k, default) == IF k \in DOMAIN d THEN d[k] ELSE default

\* d[k] = v
Put(d, k, v) == [x \in DOMAIN d \cup {k} |-> IF x = k THEN v ELSE d[x]]

\* an OrderedDict is the sequence of its items [k, v] in insertion order
Keys(od) == {od[n].k : n \in DOMAIN od}
Lookup(od, key) == (CHOOSE n \in DOMAIN od : od[n].k = key)
Values(od) == [n \in DOMAIN od |-> od[n].v]

\* a mutant of Cached: the cache is never hit
CachedNever(cache, idx) == FALSE

\* line 376: idx is in the attribute's cache
Cached(cache, idx) == idx \in Keys(cache)

\* a mutant of AssignCompact: the membership test of line 368 is lost
AssignCompactAlways(map, next, idx) == Put(map, idx, next)

\* lines 368-370: the compact index of idx, assigned when idx is new
AssignCompact(map, next, idx) ==
    IF idx \notin DOMAIN map THEN Put(map, idx, next) ELSE map

\* a mutant of Decoded: the new entry goes in front of the cache
DecodedInFront(attr, idx, st, offset, u) ==
    LET cache == GetOr(st.vertex_data, attr.name, <<>>)
        fetched == Append(st.fetches,
                          FetchCall(attr.vertexResourceId, offset, attr.vertexByteStride))
        unpacked == Append(st.unpacks, [name |-> attr.name, idx |-> idx])
    IN  IF u.exc # None
        THEN [st EXCEPT !.exc = u.exc, !.fetches = fetched, !.unpacks = unpacked,
                        !.vertex_data = Put(st.vertex_data, attr.name, cache)]
        ELSE [st EXCEPT !.fetches = fetched, !.unpacks = unpacked,
                        !.vertex_data =
                            Put(st.vertex_data, attr.name,
                                <<[k |-> idx, v |-> u.value]>> \o cache)]

\* lines 381-386: the value that was fetched is decoded (u) and cached
Decoded(attr, idx, st, offset, u) ==
    LET cache == GetOr(st.vertex_data, attr.name, <<>>)
        fetched == Append(st.fetches,
                          FetchCall(attr.vertexResourceId, offset, attr.vertexByteStride))
        unpacked == Append(st.unpacks, [name |-> attr.name, idx |-> idx])
    IN  IF u.exc # None
        THEN [st EXCEPT !.exc = u.exc, !.fetches = fetched, !.unpacks = unpacked,
                        !.vertex_data = Put(st.vertex_data, attr.name, cache)]
        ELSE [st EXCEPT !.fetches = fetched, !.unpacks = unpacked,
                        !.vertex_data =
                            Put(st.vertex_data, attr.name,
                                Append(cache, [k |-> idx, v |-> u.value]))]

\* lines 377-386: the value of idx is read from the vertex buffer
Fetched(cap, attr, idx, st) ==
    LET offset == attr.vertexByteOffset + attr.vertexByteStride * idx
    IN  Decoded(attr, idx, st, offset,
                unpackData(attr.format,
                           GetBufferData(cap, attr.vertexResourceId, offset,
                                         attr.vertexByteStride)))

\* line 388: the cached value of idx joins the attribute's stream
Emitted(attr, idx, st) ==
    LET cache == GetOr(st.vertex_data, attr.name, <<>>)
    IN  IF st.exc # None THEN st
        ELSE [st EXCEPT !.value_dict =
                 Put(st.value_dict, attr.name,
                     Append(GetOr(st.value_dict, attr.name, <<>>),
                            cache[Lookup(cache, idx)].v))]

\* lines 376-388 for one attribute, on the loop's state st
AttrStep(cap, attr, idx, st) ==
    Emitted(attr, idx,
            IF Cached(GetOr(st.vertex_data, attr.name, <<>>), idx) THEN st
            ELSE Fetched(cap, attr, idx, st))

RECURSIVE AttrLoop(_, _, _, _)
\* the loop of line 374 over the attributes that are left; an exception ends it
AttrLoop(cap, attrs, idx, st) ==
    IF attrs = <<>> \/ st.exc # None THEN st
    ELSE AttrLoop(cap, Tail(attrs), idx, AttrStep(cap, Head(attrs), idx, st))

\* the body of the loop of line 366 for the original index idx, on the
\* loop's state st
LoopBody(cap, inputs, idx, st) ==
    LET map == AssignCompact(st.idx2newIdx, st.newIdx, idx)
    IN  AttrLoop(cap, inputs, idx,
                 [idx2newIdx |-> map,
                  newIdx |-> IF idx \notin DOMAIN st.idx2newIdx
                             THEN st.newIdx + 1 ELSE st.newIdx,
                  idx_list |-> Append(st.idx_list, map[idx]),
                  vertex_data |-> st.vertex_data,
                  value_dict |-> st.value_dict,
                  fetches |-> <<>>, unpacks |-> <<>>, exc |-> None])

\* one iteration of the loop of line 366
DedupStep ==
    /\ pc = "dedup"
    /\ pos < Len(indices)
    /\ \E st \in {LoopBody(capture, meshInputs, indices[pos + 1],
                            [idx2newIdx |-> idx2newIdx, newIdx |-> newIdx,
                             idx_list |-> idx_list, vertex_data |-> vertex_data,
                             value_dict |-> value_dict])} :
           /\ idx2newIdx' = st.idx2newIdx
           /\ newIdx' = st.newIdx
           /\ idx_list' = st.idx_list
           /\ vertex_data' = st.vertex_data
           /\ value_dict' = st.value_dict
           /\ bufferFetches' = bufferFetches \o st.fetches
           /\ unpackCalls' = unpackCalls \o
                  [n \in DOMAIN st.unpacks |->
                      [draw |-> drawcallId, name |-> st.unpacks[n].name,
                       idx |-> st.unpacks[n].idx]]
           /\ exc' = st.exc
           /\ pc' = IF st.exc # None THEN "raised" ELSE "dedup"
           /\ pos' = IF st.exc # None THEN pos ELSE pos + 1
    /\ UNCHANGED <<capture, startDrawcallId, endDrawcallId, is_save_texture,
                   constantsExc,
                   dirs, textureSaves, saved_textures, result, drawcalls,
                   drawcallId, frameEvents, files, writes, meshInputs, indices,
                   idx_data, idx_len, layers, uiQueue, finished>>

(***************************************************************************)
(* The layer builders (lines 431-583).  A fragment is a sequence: <<>> is  *)
(* the empty string, <<e>> the text of the element e, whose numeric arrays *)
(* are records [name, num, a]: the declared count and the items joined by  *)
(* ",".                                                                    *)
(***************************************************************************)
Array(name, num, a) == [name |-> name, num |-> num, a |-> a]

Element(element, typedIndex, name, reference, arrays) ==
    <<[element |-> element, typedIndex |-> typedIndex, Name |-> name,
       MappingInformationType |-> "ByPolygonVertex",
       ReferenceInformationType |-> reference, arrays |-> arrays]>>

Insert(layer, type, typedIndex) ==
    <<[Layer |-> layer, Type |-> type, TypedIndex |-> typedIndex]>>

StrAll(values) == [c \in DOMAIN values |-> StrFloat(values[c])]

\* build_normal (lines 431-455): [exc, fragment, insert]
build_normal(vd, vals) ==
    IF GetOr(vd, "in_NORMAL0", <<>>) = <<>>
    THEN [exc |-> None, fragment |-> <<>>, insert |-> <<>>]
    ELSE IF \E n \in DOMAIN vals["in_NORMAL0"] : Len(vals["in_NORMAL0"][n]) < 3
    THEN [exc |-> "IndexError", fragment |-> <<>>, insert |-> <<>>]
    ELSE LET normals ==
                 Flatten([n \in DOMAIN vals["in_NORMAL0"] |->
                             [v \in 1..3 |-> StrFloat(vals["in_NORMAL0"][n][v])]])
         IN  [exc |-> None,
              fragment |-> Element("LayerElementNormal", 0, "", "Direct",
                                   <<Array("Normals", Len(normals), normals)>>),
              insert |-> Insert(0, "LayerElementNormal", 0)]

\* build_tangent (lines 457-481)
build_tangent(vd, vals) ==
    IF GetOr(vd, "in_TANGENT0", <<>>) = <<>>
    THEN [fragment |-> <<>>, insert |-> <<>>]
    ELSE LET tangents ==
                 Flatten([n \in DOMAIN vals["in_TANGENT0"] |->
                             StrAll(vals["in_TANGENT0"][n])])
         IN  [fragment |-> Element("LayerElementTangent", 0, "", "Direct",
                                   <<Array("Tangents", Len(tangents), tangents)>>),
              insert |-> Insert(0, "LayerElementTangent", 0)]

\* a mutant of ColorItems: enumerate counts from 0
ColorItemsFromZero(values) ==
    [i \in DOMAIN values |-> IF (i - 1) % 4 # 0 THEN StrFloat(values[i]) ELSE "1"]

\* the comprehension of lines 488-492 for one value
ColorItems(values) ==
    [i \in DOMAIN values |-> IF i % 4 # 0 THEN StrFloat(values[i]) ELSE "1"]

\* build_color (lines 483-516)
build_color(vd, vals, len) ==
    IF GetOr(vd, "in_COLOR0", <<>>) = <<>>
    THEN [fragment |-> <<>>, insert |-> <<>>]
    ELSE LET colors ==
                 Flatten([n \in DOMAIN vals["in_COLOR0"] |->
                             ColorItems(vals["in_COLOR0"][n])])
         IN  [fragment |-> Element("LayerElementColor", 0, "colorSet1", "IndexToDirect",
                                   <<Array("Colors", Len(colors), colors),
                                     Array("ColorIndex", len,
                                           [i \in 1..len |-> StrInt(i - 1)])>>),
              insert |-> Insert(0, "LayerElementColor", 0)]

\* the UV element of build_uv0 and build_uv1
UVElement(typedIndex, od, data, len) ==
    LET uvs == Flatten([n \in DOMAIN od |-> StrAll(od[n].v)])
    IN  Element("LayerElementUV", typedIndex, "", "IndexToDirect",
                <<Array("UV", Len(uvs), uvs), Array("UVIndex", len, data)>>)

\* a mutant of build_uv0: UVIndex is declared with the number of cached vertices
build_uv0_cache_count(vd, data, len) ==
    IF GetOr(vd, "in_TEXCOORD0", <<>>) = <<>>
    THEN [fragment |-> <<>>, insert |-> <<>>]
    ELSE [fragment |-> UVElement(0, vd["in_TEXCOORD0"], data, Len(vd["in_TEXCOORD0"])),
          insert |-> Insert(0, "LayerElementUV", 0)]

\* build_uv0 (lines 518-548)
build_uv0(vd, data, len) ==
    IF GetOr(vd, "in_TEXCOORD0", <<>>) = <<>>
    THEN [fragment |-> <<>>, insert |-> <<>>]
    ELSE [fragment |-> UVElement(0, vd["in_TEXCOORD0"], data, len),
          insert |-> Insert(0, "LayerElementUV", 0)]

\* build_uv1 (lines 550-583)
build_uv1(vd, data, len) ==
    IF GetOr(vd, "in_TEXCOORD1", <<>>) = <<>>
    THEN [fragment |-> <<>>, insert |-> <<>>]
    ELSE [fragment |-> UVElement(1, vd["in_TEXCOORD1"], data, len),
          insert |-> Insert(1, "LayerElementUV", 1)]

(***************************************************************************)
(* export_fbx: the document (lines 390-429).                               *)
(***************************************************************************)
\* a mutant of Polygons: enumerate counts from 0
PolygonsFromZero(list) ==
    [i \in DOMAIN list |->
        IF (i - 1) % 3 # 0 THEN StrInt(list[i]) ELSE StrInt(-(list[i] + 1))]

\* line 401
Polygons(list) ==
    [i \in DOMAIN list |-> IF i % 3 # 0 THEN StrInt(list[i]) ELSE StrInt(-(list[i] + 1))]

\* lines 396-399
Vertices(vd) ==
    LET od == GetOr(vd, "in_POSITION0", <<>>)
    IN  Flatten([n \in DOMAIN od |-> StrAll(od[n].v)])

FileName(id) == "drawcall_" \o ToString(id) \o ".fbx"

\* os.path.basename(os.path.splitext(save_path)[0])
SaveName(id) == "drawcall_" \o ToString(id)

\* the fragments after the five builders ran, the later ones only when
\* build_normal returned
BuiltLayers(old, vd, vals, data, len) ==
    LET n == build_normal(vd, vals)
        t == build_tangent(vd, vals)
        c == build_color(vd, vals, len)
        u0 == build_uv0(vd, data, len)
        u1 == build_uv1(vd, data, len)
        l1 == Put(Put(old, "LayerElementNormal", n.fragment),
                  "LayerElementNormalInsert", n.insert)
        l2 == Put(Put(l1, "LayerElementTangent", t.fragment),
                  "LayerElementTangentInsert", t.insert)
        l3 == Put(Put(l2, "LayerElementColor", c.fragment),
                  "LayerElementColorInsert", c.insert)
        l4 == Put(Put(l3, "LayerElementUV", u0.fragment),
                  "LayerElementUVInsert", u0.insert)
        l5 == Put(Put(l4, "LayerElementUV1", u1.fragment),
                  "LayerElementUV1Insert", u1.insert)
    IN  IF n.exc # None
        THEN Put(Put(old, "LayerElementNormal", <<>>), "LayerElementNormalInsert", <<>>)
        ELSE l5

\* ARGS substituted into FBX_ASCII_TEMPLETE (lines 395-426)
Document(id, vd, list, built) ==
    LET vertices == Vertices(vd)
        polygons == Polygons(list)
    IN  [model_name |-> SaveName(id),
         Vertices |-> Array("Vertices", Len(vertices), vertices),
         PolygonVertexIndex |-> Array("PolygonVertexIndex", Len(polygons), polygons),
         LayerElementNormal |-> built["LayerElementNormal"],
         LayerElementNormalInsert |-> built["LayerElementNormalInsert"],
         LayerElementTangent |-> built["LayerElementTangent"],
         LayerElementTangentInsert |-> built["LayerElementTangentInsert"],
         LayerElementColor |-> built["LayerElementColor"],
         LayerElementColorInsert |-> built["LayerElementColorInsert"],
         LayerElementUV |-> built["LayerElementUV"],
         LayerElementUVInsert |-> built["LayerElementUVInsert"],
         LayerElementUV1 |-> built["LayerElementUV1"],
         LayerElementUV1Insert |-> built["LayerElementUV1Insert"]]

\* the rest of export_fbx once the loop of line 366 is exhausted, and the
\* return to the loop of __init__
AssembleAndWrite ==
    /\ pc = "dedup"
    /\ pos = Len(indices)
    /\ LET data == [n \in DOMAIN idx_list |-> StrInt(idx_list[n])]
           len == Len(idx_list)
           vd == Put(vertex_data, "in_POSITION0", GetOr(vertex_data, "in_POSITION0", <<>>))
           raised == build_normal(vd, value_dict).exc # None
           built == BuiltLayers(layers, vd, value_dict, data, len)
       IN  /\ idx_data' = data
           /\ idx_len' = len
           /\ vertex_data' = vd
           /\ layers' = built
           /\ IF raised
              THEN /\ pc' = "raised"
                   /\ exc' = build_normal(vd, value_dict).exc
                   /\ UNCHANGED <<files, writes, drawcallId>>
              ELSE /\ pc' = "loop"
                   /\ files' = Put(files, FileName(drawcallId),
                                   Document(drawcallId, vd, idx_list, built))
                   /\ writes' = Append(writes, FileName(drawcallId))
                   /\ drawcallId' = drawcallId + 1
                   /\ UNCHANGED exc
    /\ UNCHANGED <<capture, startDrawcallId, endDrawcallId, is_save_texture,
                   constantsExc,
                   dirs, textureSaves, saved_textures, result, drawcalls,
                   frameEvents, bufferFetches, unpackCalls, meshInputs, indices, pos,
                   idx_list, idx2newIdx, newIdx, value_dict, uiQueue, finished>>

(***************************************************************************)
(* export_constants (lines 259-298).  A constant block is                  *)
(* [arraySize, vars], vars being what r.GetCBufferVariableContents gives   *)
(* for it; a variable is [name, type, columns, f32v, members] and a member *)
(* [type, columns, f32v].  cb_json is the sequence of its items            *)
(* [k, list, rows] in insertion order: rows is value_list when list, and   *)
(* <<value>> otherwise.                                                    *)
(***************************************************************************)
Scale5 == 100000

\* the fraction x in units of 1/100000, rounded to nearest, ties to even
Round5(x) ==
    LET a == IF x.num < 0 THEN -x.num ELSE x.num
        q == (a * Scale5) \div x.den
        r == (a * Scale5) % x.den
    IN  IF (2 * r > x.den) \/ (2 * r = x.den /\ q % 2 = 1) THEN q + 1 ELSE q

\* the five digits after the point
Digits5(f) ==
    ToString(f \div 10000) \o ToString((f \div 1000) % 10)
        \o ToString((f \div 100) % 10) \o ToString((f \div 10) % 10)
        \o ToString(f % 10)

\* the text of m units of 1/100000
Fixed5Text(neg, m) ==
    (IF neg THEN "-" ELSE "") \o ToString(m \div Scale5) \o "."
        \o Digits5(m % Scale5)

\* "%.5f" % x
Fixed5(x) == Fixed5Text(x.num < 0, Round5(x))

\* the loops of lines 277-280 and 286-289: the first columns values of f32v
RECURSIVE Row(_, _)
Row(f32v, columns) ==
    IF columns = 0 THEN ""
    ELSE IF columns = 1 THEN Fixed5(f32v[1])
    ELSE Row(f32v, columns - 1) \o ", " \o Fixed5(f32v[columns])

\* value_list (lines 273-281): one row per member of type Float
RECURSIVE value_list(_)
value_list(members) ==
    IF members = <<>> THEN <<>>
    ELSE IF members[1].type = "Float"
         THEN <<Row(members[1].f32v, members[1].columns)>> \o value_list(Tail(members))
         ELSE value_list(Tail(members))

\* cb_json[k] = v for an item [k, list, rows]: a key keeps its place
JsonPut(cb_json, item) ==
    IF \E n \in DOMAIN cb_json : cb_json[n].k = item.k
    THEN [n \in DOMAIN cb_json |-> IF cb_json[n].k = item.k THEN item ELSE cb_json[n]]
    ELSE Append(cb_json, item)

\* what cb_json gets for the variable v (lines 272-290)
JsonItem(v) ==
    IF Len(v.members) > 0
    THEN [k |-> v.name, list |-> TRUE, rows |-> value_list(v.members)]
    ELSE [k |-> v.name, list |-> FALSE,
          rows |-> <<IF v.type = "Float" THEN Row(v.f32v, v.columns) ELSE "">>]

\* the loop of line 271
RECURSIVE cb_json_of(_)
cb_json_of(cb_vars) ==
    IF cb_vars = <<>> THEN <<>>
    ELSE JsonPut(cb_json_of(SubSeq(cb_vars, 1, Len(cb_vars) - 1)),
                 JsonItem(cb_vars[Len(cb_vars)]))

\* the lines of a list of strings, one level in
RECURSIVE JsonRows(_)
JsonRows(rows) ==
    IF Len(rows) = 1 THEN "        \"" \o rows[1] \o "\""
    ELSE JsonRows(SubSeq(rows, 1, Len(rows) - 1)) \o ",\n"
             \o "        \"" \o rows[Len(rows)] \o "\""

\* json.dumps of the value of an item
JsonValue(item) ==
    IF ~item.list THEN "\"" \o item.rows[1] \o "\""
    ELSE IF item.rows = <<>> THEN "[]"
    ELSE "[\n" \o JsonRows(item.rows) \o "\n    ]"

\* the lines of the items
RECURSIVE JsonItems(_)
JsonItems(cb_json) ==
    IF Len(cb_json) = 1
    THEN "    \"" \o cb_json[1].k \o "\": " \o JsonValue(cb_json[1])
    ELSE JsonItems(SubSeq(cb_json, 1, Len(cb_json) - 1)) \o ",\n"
             \o "    \"" \o cb_json[Len(cb_json)].k \o "\": "
             \o JsonValue(cb_json[Len(cb_json)])

\* json.dumps(cb_json, indent=4) (line 292), for names and rows that need
\* no escape
json_dumps(cb_json) ==
    IF cb_json = <<>> THEN "{}" ELSE "{\n" \o JsonItems(cb_json) \o "\n}"

\* the files export_constants writes
ConstantFiles == {"vertex.json", "fragment.json"}

\* lines 292-298 for a block of arraySize <= 1; st is [exc, files, writes].
\* For a stage that is neither Vertex nor Fragment name is not bound at line 297
BlockWritten(cb_vars, stage, st) ==
    IF stage \notin {"Vertex", "Fragment"}
    THEN [st EXCEPT !.exc = "UnboundLocalError"]
    ELSE [st EXCEPT
             !.files = Put(st.files,
                           IF stage = "Vertex" THEN "vertex.json" ELSE "fragment.json",
                           [json |-> json_dumps(cb_json_of(cb_vars))]),
             !.writes = Append(st.writes,
                           IF stage = "Vertex" THEN "vertex.json" ELSE "fragment.json")]

\* the loop of line 263 over the constant blocks of the stage
RECURSIVE export_constants(_, _, _)
export_constants(constantBlocks, stage, st) ==
    IF constantBlocks = <<>> \/ st.exc # None THEN st
    ELSE export_constants(Tail(constantBlocks), stage,
             IF constantBlocks[1].arraySize <= 1
             THEN BlockWritten(constantBlocks[1].vars, stage, st)
             ELSE st)

\* the json files opened so far
JsonWrites == Len(SelectSeq(writes, LAMBDA f : f \in ConstantFiles))

\* export_constants(state, stage), called on the Exporter that __init__ left
ExportConstants ==
    /\ pc \in {"constructed", "returned"}
    /\ JsonWrites < MaxJsonWrites
    /\ \E stage \in Stages :
          \E st \in {export_constants(capture.constants[stage], stage,
                         [exc |-> None, files |-> files, writes |-> writes])} :
              /\ files' = st.files
              /\ writes' = st.writes
              /\ constantsExc' = st.exc
    /\ UNCHANGED <<capture, startDrawcallId, endDrawcallId, is_save_texture,
                   dirs, textureSaves, saved_textures, pc, exc, result, drawcalls,
                   drawcallId, frameEvents, bufferFetches, unpackCalls, meshInputs,
                   indices, pos, idx_list, idx2newIdx, newIdx, vertex_data,
                   value_dict, idx_data, idx_len, layers, uiQueue, finished>>

(***************************************************************************)
(* _replay_callback's end and the UI thread (lines 590-594).               *)
(***************************************************************************)
\* line 594: the lambda is handed to the UI thread
InvokeOntoUIThread ==
    /\ pc = "constructed"
    /\ uiQueue' = Append(uiQueue, "finished_callback(exporter.get_result())")
    /\ pc' = "returned"
    /\ UNCHANGED <<capture, startDrawcallId, endDrawcallId, is_save_texture,
                   constantsExc,
                   dirs, textureSaves, saved_textures, exc, result, drawcalls,
                   drawcallId, frameEvents, bufferFetches, unpackCalls, files,
                   writes, meshInputs, indices, pos, idx_list, idx2newIdx, newIdx,
                   vertex_data, value_dict, idx_data, idx_len, layers, finished>>

\* get_result (lines 585-586)
get_result == result

\* the UI thread runs the lambda
RunOnUIThread ==
    /\ uiQueue # <<>>
    /\ uiQueue' = Tail(uiQueue)
    /\ finished' = Append(finished, get_result)
    /\ UNCHANGED <<capture, startDrawcallId, endDrawcallId, is_save_texture,
                   constantsExc,
                   dirs, textureSaves, saved_textures, pc, exc, result,
                   drawcalls, drawcallId, frameEvents, bufferFetches, unpackCalls,
                   files, writes, meshInputs, indices, pos, idx_list, idx2newIdx,
                   newIdx, vertex_data, value_dict, idx_data, idx_len, layers>>

(***************************************************************************)
(* The inputs.                                                             *)
(***************************************************************************)
SeqsUpTo(S, n) == UNION {[1..k -> S] : k \in 0..n}

PosOnly == <<Attr("in_POSITION0", TRUE, FALSE, UsualFormat("in_POSITION0"))>>

\* the attributes of the set S in the order of AttrNames; with listUnused the
\* others are bound too, unused and per instance
AttrsFor(S, listUnused) ==
    LET all == [n \in DOMAIN AttrNames |->
                   Attr(AttrNames[n], AttrNames[n] \in S, AttrNames[n] \notin S,
                        UsualFormat(AttrNames[n]))]
    IN  IF listUnused THEN all ELSE SelectSeq(all, LAMBDA a : a.used)

ExampleIndices == {<<0, 1, 2, 0, 2, 3>>, <<1, 1, 0>>}

\* every index sequence, from an index buffer or as a range
IndexConfigs ==
    {Config(PosOnly, TRUE, TRUE, ib, 1, 0, base, Len(ib), 0, 1) :
        ib \in SeqsUpTo(0..MaxVertex, MaxIndices), base \in 0..MaxBase}
    \cup
    {Config(PosOnly, FALSE, bound, <<2, 1, 0, 2, 1, 0, 2, 1, 0>>, 1, 0, base, n, 0, 1) :
        bound \in BOOLEAN, n \in 0..MaxIndices, base \in 0..MaxBase}

\* index buffers of 1-byte and 2-byte entries read from a first index on;
\* some hold fewer entries than the draw call asks for
OffsetIndexBytes == {<<1, 0, 0, 0, 2, 0, 1, 0>>, <<2, 1, 0, 2>>}

OffsetConfigs ==
    {Config(PosOnly, TRUE, TRUE, ib, w, off, base, n, 0, 1) :
        ib \in OffsetIndexBytes, w \in {1, 2}, off \in 0..2,
        base \in 0..MaxBase, n \in 1..3}

\* every set of attributes
AttrConfigs ==
    {Config(AttrsFor(S, listUnused), TRUE, TRUE, ib, 1, 0, 0, Len(ib), seed, 1) :
        S \in SUBSET Range(AttrNames), listUnused \in BOOLEAN,
        ib \in ExampleIndices, seed \in {1, 77}}

\* one attribute per instance
InstancedAttrs(name) ==
    [n \in DOMAIN AttrNames |->
        Attr(AttrNames[n], TRUE, AttrNames[n] = name, UsualFormat(AttrNames[n]))]

InstancedConfigs ==
    {Config(InstancedAttrs(name), TRUE, TRUE, <<0, 1, 2>>, 1, 0, 0, 3, 1, 1) :
        name \in Range(AttrNames)}

\* every format of one attribute, ahead of the position in the vertex
FormatConfigs ==
    {Config(<<Attr(name, TRUE, FALSE, Format(t, n, w, sp, bgra))>> \o PosOnly,
            TRUE, TRUE, <<0, 1, 0>>, 1, 0, 0, 3, seed, step) :
        name \in {"in_COLOR0", "in_NORMAL0"}, t \in IntTypes, n \in 1..4,
        w \in {1, 2}, sp \in BOOLEAN, bgra \in BOOLEAN,
        seed \in {0, 127, 255}, step \in {0, 1, 128}}

\* the draw calls of a range: two that export, and one of each failure
TriangleConfig == Config(PosOnly, FALSE, FALSE, <<>>, 0, 0, 0, 3, 5, 1)

RangeConfigs ==
    {TriangleConfig,
     Config(AttrsFor({"in_POSITION0", "in_NORMAL0", "in_COLOR0", "in_TEXCOORD0"}, FALSE),
            TRUE, TRUE, <<0, 1, 2, 0, 2, 3>>, 1, 0, 0, 6, 9, 7),
     Config(<<Attr("in_POSITION0", TRUE, FALSE, Format("UNorm", 3, 1, TRUE, FALSE))>>,
            FALSE, FALSE, <<>>, 0, 0, 0, 3, 5, 1),
     Config(InstancedAttrs("in_NORMAL0"), FALSE, FALSE, <<>>, 0, 0, 0, 3, 5, 1),
     Config(PosOnly, FALSE, FALSE, <<>>, 0, 0, 0, 0, 5, 1)}

\* the draw calls of a range are triangles, but for two of them at most
RangeCaptures ==
    {CaptureOf(isChild, cfgs) :
        isChild \in {f \in [1..MaxDraws -> BOOLEAN] : ~f[1]},
        cfgs \in {c \in [1..MaxDraws -> RangeConfigs] :
                     Cardinality({id \in 1..MaxDraws : c[id] # TriangleConfig}) <= 2}}

\* two draw calls with textures bound: the textures of the frame, and the
\* bindings of a draw call (each by its resources)
TextureTables == {<<>>, <<Texture(1, 1)>>, <<Texture(1, 1), Texture(2, 3)>>}

Bindings ==
    {<<>>, <<<<>>>>, <<<<TexId(1)>>>>, <<<<NullId>>, <<TexId(2)>>>>,
     <<<<TexId(1)>>, <<TexId(1), TexId(2)>>>>, <<<<TexId(2)>>, <<TexId(1)>>>>}

TexturedConfigs ==
    {TriangleConfig,
     Config(InstancedAttrs("in_NORMAL0"), FALSE, FALSE, <<>>, 0, 0, 0, 3, 5, 1)}

TexturedCaptures ==
    {TexturedCaptureOf(<<FALSE, FALSE>>, cfgs, textures, bound) :
        cfgs \in [1..2 -> TexturedConfigs], textures \in TextureTables,
        bound \in [1..2 -> Bindings]}

\* variables and members of constant blocks
Var(name, type, columns, f32v, members) ==
    [name |-> name, type |-> type, columns |-> columns, f32v |-> f32v,
     members |-> members]

Member(type, columns, f32v) == [type |-> type, columns |-> columns, f32v |-> f32v]

Block(arraySize, cb_vars) == [arraySize |-> arraySize, vars |-> cb_vars]

\* the constant blocks of a stage: none; a block of a colour and a struct
\* followed by an array of blocks; two blocks with ties of rounding, a
\* negative value, an integer variable, a member that is no float, a name
\* met twice and a struct without float; a block without variables
ConstantTables ==
    {<<>>,
     <<Block(1, <<Var("_Color", "Float", 4,
                      <<Frac(1, 1), Frac(1, 2), Frac(1, 4), Frac(1, 1)>>, <<>>),
                  Var("_M", "Float", 0, <<>>,
                      <<Member("Float", 2, <<Frac(0, 1), Frac(2, 1)>>)>>)>>),
       Block(4, <<Var("_Bones", "Float", 1, <<Frac(1, 1)>>, <<>>)>>)>>,
     <<Block(1, <<Var("_I", "Float", 0, <<>>,
                      <<Member("UInt", 1, <<Frac(1, 1)>>)>>)>>),
       Block(0, <<Var("_T", "Float", 2,
                      <<Frac(1, 64), Frac(-3, 64), Frac(7, 1)>>, <<>>),
                  Var("_Count", "SInt", 1, <<Frac(3, 1)>>, <<>>),
                  Var("_S", "Float", 0, <<>>,
                      <<Member("SInt", 1, <<Frac(1, 1)>>),
                        Member("Float", 1, <<Frac(-1, 131072)>>),
                        Member("Float", 3, <<Frac(5, 2), Frac(0, 1), Frac(1, 8)>>)>>),
                  Var("_T", "Float", 1, <<Frac(21, 2)>>, <<>>),
                  Var("_I", "Float", 0, <<>>,
                      <<Member("UInt", 1, <<Frac(1, 1)>>)>>),
                  Var("_U", "Float", 2, <<Frac(1, 64), Frac(-3, 64)>>, <<>>)>>)>>,
     <<Block(1, <<>>)>>}

\* one triangle, and constant blocks bound to each stage
ConstantCaptures ==
    {WithConstants(CaptureOf(<<FALSE>>, <<TriangleConfig>>), constants) :
        constants \in [Stages -> ConstantTables]}

\* one draw call, exported alone
SingleConfigs ==
    IndexConfigs \cup OffsetConfigs \cup AttrConfigs \cup InstancedConfigs
        \cup FormatConfigs

Init ==
    /\ \/ /\ \E cfg \in SingleConfigs : capture = CaptureOf(<<FALSE>>, <<cfg>>)
          /\ startDrawcallId = 1
          /\ endDrawcallId = 1
          /\ is_save_texture = FALSE
       \/ /\ capture \in RangeCaptures
          /\ startDrawcallId \in 0..(MaxDraws + 1)
          /\ endDrawcallId \in 0..(MaxDraws + 1)
          /\ is_save_texture = FALSE
       \/ /\ capture \in TexturedCaptures
          /\ startDrawcallId = 1
          /\ endDrawcallId \in 1..3
          /\ is_save_texture \in BOOLEAN
       \/ /\ capture \in ConstantCaptures
          /\ startDrawcallId = 1
          /\ endDrawcallId \in 1..2
          /\ is_save_texture = FALSE
    /\ constantsExc = None
    /\ dirs = {}
    /\ textureSaves = <<>>
    /\ saved_textures = {}
    /\ pc = "idle"
    /\ exc = None
    /\ result = None
    /\ drawcalls = {}
    /\ drawcallId = 0
    /\ frameEvents = <<>>
    /\ bufferFetches = <<>>
    /\ unpackCalls = <<>>
    /\ files = EmptyMap
    /\ writes = <<>>
    /\ meshInputs = <<>>
    /\ indices = <<>>
    /\ pos = 0
    /\ idx_list = <<>>
    /\ idx2newIdx = EmptyMap
    /\ newIdx = 0
    /\ vertex_data = EmptyMap
    /\ value_dict = EmptyMap
    /\ idx_data = <<>>
    /\ idx_len = 0
    /\ layers = EmptyMap
    /\ uiQueue = <<>>
    /\ finished = <<>>

Next ==
    \/ ExportWrap
    \/ ExporterInit
    \/ ExportByDrawcall
    \/ DrawcallKeyError
    \/ LoopDone
    \/ DedupStep
    \/ AssembleAndWrite
    \/ InvokeOntoUIThread
    \/ RunOnUIThread
    \/ ExportConstants

Spec == Init /\ [][Next]_vars

(***************************************************************************)
(* What the claims speak of.                                               *)
(***************************************************************************)
Last(seq) == seq[Len(seq)]

\* the loop of line 366 has handled pos occurrences and has not raised
InPass == pc = "dedup"

\* the loop of line 366 is exhausted
PassDone == pc = "dedup" /\ pos = Len(indices)

\* export_fbx has just written the document of the pass the variables hold
JustWrote ==
    /\ pc = "loop"
    /\ writes # <<>>
    /\ Last(writes) = FileName(drawcallId - 1)

WrittenDoc == files[Last(writes)]

\* the first position of the original index a in the index sequence
FirstPos(a) == CHOOSE k \in DOMAIN indices : indices[k] = a /\ \A j \in 1..(k - 1) : indices[j] # a

\* the bytes of the vertex idx of an attribute, decoded
DecodedAt(attr, idx) ==
    unpackData(attr.format,
               GetBufferData(capture, attr.vertexResourceId,
                             attr.vertexByteOffset + attr.vertexByteStride * idx,
                             attr.vertexByteStride)).value

\* C1: in the deduplication pass the compact indices are 0,1,2,... in the
\* order in which the distinct original indices first occur (the mapping is
\* injective, its range is 0..d-1), and the compact index list has one entry
\* per occurrence handled, entry i being the compact index of the original
\* index at position i; [0,1,2,0,2,3] gives [0,1,2,0,2,3] with 4 distinct.
C1_CompactIndices ==
    InPass =>
        /\ Len(idx_list) = pos
        /\ DOMAIN idx2newIdx = {indices[k] : k \in 1..pos}
        /\ {idx2newIdx[a] : a \in DOMAIN idx2newIdx} = 0..(Cardinality(DOMAIN idx2newIdx) - 1)
        /\ \A a, b \in DOMAIN idx2newIdx :
              /\ (idx2newIdx[a] = idx2newIdx[b] => a = b)
              /\ (FirstPos(a) < FirstPos(b) => idx2newIdx[a] < idx2newIdx[b])
        /\ \A i \in 1..pos : idx_list[i] = idx2newIdx[indices[i]]
        /\ newIdx = Cardinality(DOMAIN idx2newIdx)
        /\ (PassDone /\ indices = <<0, 1, 2, 0, 2, 3>> =>
               /\ idx_list = <<0, 1, 2, 0, 2, 3>>
               /\ Cardinality(DOMAIN idx2newIdx) = 4)

\* a pass over an index sequence with repeats whose compact indices differ
\* from the original ones
C1_Witness ==
    /\ PassDone
    /\ indices = <<2, 0, 2, 1>>
    /\ idx_list = <<0, 1, 0, 2>>

\* C2: in one draw call's pass every (attribute, original index) is fetched
\* and decoded at most once, and the attribute's per-polygon-vertex stream
\* has one value per occurrence handled: entry i is the decoded value of the
\* original index at position i.
C2_OneDecodePerIndex ==
    /\ \A m, n \in DOMAIN unpackCalls : unpackCalls[m] = unpackCalls[n] => m = n
    /\ InPass =>
          \A k \in DOMAIN meshInputs :
             LET attr == meshInputs[k]
                 stream == GetOr(value_dict, attr.name, <<>>)
             IN  /\ Len(stream) = pos
                 /\ \A i \in 1..pos : stream[i] = DecodedAt(attr, indices[i])
                 /\ \A idx \in Range(indices) :
                       Cardinality({n \in DOMAIN bufferFetches :
                           bufferFetches[n] =
                               FetchCall(attr.vertexResourceId,
                                         attr.vertexByteOffset + attr.vertexByteStride * idx,
                                         attr.vertexByteStride)}) <= 1
                 /\ Cardinality({n \in DOMAIN unpackCalls :
                        /\ unpackCalls[n].draw = drawcallId
                        /\ unpackCalls[n].name = attr.name})
                    = Cardinality({indices[i] : i \in 1..pos})

\* a finished pass of several attributes over six occurrences of four indices
C2_Witness ==
    /\ PassDone
    /\ indices = <<0, 1, 2, 0, 2, 3>>
    /\ Len(meshInputs) >= 2
    /\ \A k \in DOMAIN meshInputs : Len(value_dict[meshInputs[k].name]) = 6
    /\ Len(unpackCalls) = 4 * Len(meshInputs)

\* C3: the polygon array has the length of the compact index list; an entry
\* at a 1-indexed position that is a multiple of 3 is -(v+1) for the compact
\* index v there, every other entry is the compact index itself, so -p-1 of
\* the negative entries p gives the compact index list back; [0,1,2] becomes
\* [0,1,-3].
C3_Winding ==
    JustWrote =>
        LET p == WrittenDoc.PolygonVertexIndex
        IN  /\ p.num = Len(idx_list)
            /\ Len(p.a) = Len(idx_list)
            /\ \A i \in DOMAIN idx_list :
                  /\ (i % 3 = 0 => p.a[i] = StrInt(-(idx_list[i] + 1)))
                  /\ (i % 3 # 0 => p.a[i] = StrInt(idx_list[i]))
                  /\ \E v \in (-(Len(idx_list) + 1))..Len(idx_list) :
                        /\ p.a[i] = StrInt(v)
                        /\ (v < 0 <=> i % 3 = 0)
                        /\ idx_list[i] = IF v < 0 THEN -v - 1 ELSE v
            /\ (idx_list = <<0, 1, 2>> => p.a = <<"0", "1", "-3">>)

\* a document of two triangles that share vertices
C3_Witness ==
    /\ JustWrote
    /\ idx_list = <<0, 1, 2, 0, 2, 3>>
    /\ WrittenDoc.PolygonVertexIndex.a = <<"0", "1", "-3", "0", "2", "-4">>

\* the numeric arrays of a document
ArraysOf(doc) ==
    {doc.Vertices, doc.PolygonVertexIndex}
    \cup UNION {Range(frag[1].arrays) :
                  frag \in {f \in {doc.LayerElementNormal, doc.LayerElementTangent,
                                   doc.LayerElementColor, doc.LayerElementUV,
                                   doc.LayerElementUV1} : f # <<>>}}

\* C4: in every document written, each numeric array (Vertices,
\* PolygonVertexIndex, Normals, Tangents, Colors, ColorIndex, UV and UVIndex
\* of both UV layers) is declared with the number of elements it holds.
C4_DeclaredCounts ==
    \A f \in DOMAIN files \ ConstantFiles :
        \A arr \in ArraysOf(files[f]) : arr.num = Len(arr.a)

\* a document with all five layers, whose arrays differ in length
C4_Witness ==
    \E f \in DOMAIN files \ ConstantFiles :
        /\ {arr.name : arr \in ArraysOf(files[f])} =
              {"Vertices", "PolygonVertexIndex", "Normals", "Tangents", "Colors",
               "ColorIndex", "UV", "UVIndex"}
        /\ files[f].LayerElementUV1 # <<>>
        /\ files[f].LayerElementUV # <<>>
        /\ files[f].LayerElementUV[1].arrays[1].num = 8
        /\ files[f].LayerElementUV[1].arrays[2].num = 6
        /\ files[f].Vertices.num = 12

\* the raw components of the vertex idx of an attribute
RawAt(attr, idx) ==
    unpack_from(attr.format.compCount, attr.format.compType \in SignedTypes,
                attr.format.compByteWidth,
                GetBufferData(capture, attr.vertexResourceId,
                              attr.vertexByteOffset + attr.vertexByteStride * idx,
                              attr.vertexByteStride), 0).value

\* what the specification asks of a signed-normalized component i of the
\* given width in bits
SNormAsSpecified(i, bits) ==
    IF i = -Pow2(bits - 1) THEN Flt(TRUE, Scale)
    ELSE Keep4(Frac(i, Pow2(bits - 1) - 1))

\* C5: a signed-normalized component i of bits = 8w bits decodes to
\* i / (2^(bits-1) - 1), the most negative value -2^(bits-1) to exactly -1.0,
\* so every decoded component lies in [-1, 1]; the byte 0x80 decodes to
\* -1.0000 and 127 to 1.0000.
C5_SignedNormalized ==
    InPass =>
        \A k \in DOMAIN meshInputs :
            LET attr == meshInputs[k]
                cache == GetOr(vertex_data, attr.name, <<>>)
            IN  attr.format.compType = "SNorm" /\ ~attr.format.bgra =>
                    \A n \in DOMAIN cache : \A c \in DOMAIN cache[n].v :
                        /\ cache[n].v[c] =
                              SNormAsSpecified(RawAt(attr, cache[n].k)[c],
                                               8 * attr.format.compByteWidth)
                        /\ cache[n].v[c].mag <= Scale

\* the present 4-component colour values of the document written last
ColorStream == GetOr(value_dict, "in_COLOR0", <<>>)

ColorsWritten == WrittenDoc.LayerElementColor[1].arrays[1].a

HasColors4 ==
    /\ JustWrote
    /\ WrittenDoc.LayerElementColor # <<>>
    /\ \A n \in DOMAIN ColorStream : Len(ColorStream[n]) = 4

\* C6 as stated: build_color emits "1" in place of component 0 of every
\* 4-component colour and components 1, 2, 3 unchanged and in order.
C6_LeadingChannelForced ==
    HasColors4 =>
        \A n \in DOMAIN ColorStream :
            /\ ColorsWritten[4 * (n - 1) + 1] = "1"
            /\ \A c \in 2..4 : ColorsWritten[4 * (n - 1) + c] = StrFloat(ColorStream[n][c])

\* C6 as amended: build_color emits, for every polygon-vertex 4-component
\* colour, the decoded components 0, 1 and 2 unchanged and in order and the
\* literal "1" in place of component 3, the last channel.
C6_LastChannelForced ==
    HasColors4 =>
        /\ Len(ColorsWritten) = 4 * Len(ColorStream)
        /\ \A n \in DOMAIN ColorStream :
              /\ ColorsWritten[4 * (n - 1) + 4] = "1"
              /\ \A c \in 1..3 : ColorsWritten[4 * (n - 1) + c] = StrFloat(ColorStream[n][c])

\* colours were written whose first and last decoded components are not 1.0
C6_Witness ==
    /\ HasColors4
    /\ \E n \in DOMAIN ColorStream :
          /\ StrFloat(ColorStream[n][1]) # "1.0"
          /\ StrFloat(ColorStream[n][4]) # "1.0"
          /\ ColorsWritten[4 * (n - 1) + 1] = StrFloat(ColorStream[n][1])
          /\ ColorsWritten[4 * (n - 1) + 4] = "1"

(***************************************************************************)
(* A draw call exported on its own, with a part of its attributes.         *)
(***************************************************************************)
InputsOf(d) ==
    LET draw == DrawOf(capture, d)
        state == GetPipelineState(capture, <<draw.eventId>>)
    IN  MeshInputsOf(draw, state.ib, state.vbs, state.attrs)

IndicesOf(d) == getIndices(capture, InputsOf(d).inputs[1])

RECURSIVE PassOver(_, _, _)
\* the loop of line 366 over the index sequence inds
PassOver(inputs, inds, st) ==
    IF inds = <<>> \/ st.exc # None THEN st
    ELSE PassOver(inputs, Tail(inds), LoopBody(capture, inputs, Head(inds), st))

PassStart ==
    [idx2newIdx |-> EmptyMap, newIdx |-> 0, idx_list |-> <<>>,
     vertex_data |-> EmptyMap, value_dict |-> EmptyMap, exc |-> None]

\* the document of draw call d had it only the attributes named in keep
DocumentWith(d, keep) ==
    LET inputs == SelectSeq(InputsOf(d).inputs, LAMBDA a : a.name \in keep)
        st == PassOver(inputs, IndicesOf(d).value, PassStart)
    IN  Document(d, st.vertex_data, st.idx_list,
                 BuiltLayers(EmptyMap, st.vertex_data, st.value_dict,
                             [n \in DOMAIN st.idx_list |-> StrInt(st.idx_list[n])],
                             Len(st.idx_list)))

\* the optional layers: source attribute, fragment, insert reference
OptionalLayers ==
    {<<"in_NORMAL0", "LayerElementNormal", "LayerElementNormalInsert">>,
     <<"in_TANGENT0", "LayerElementTangent", "LayerElementTangentInsert">>,
     <<"in_COLOR0", "LayerElementColor", "LayerElementColorInsert">>,
     <<"in_TEXCOORD0", "LayerElementUV", "LayerElementUVInsert">>,
     <<"in_TEXCOORD1", "LayerElementUV1", "LayerElementUV1Insert">>}

WrittenDraws == {d \in DOMAIN capture.cfgs : FileName(d) \in DOMAIN files}

\* C7: in every document written, a layer whose source attribute the draw
\* call lacks has an empty fragment and an empty insert reference, a layer
\* whose attribute is present has both non-empty, and each fragment, the
\* vertex array and the polygon array are what the draw call gives with that
\* attribute (the position) alone: no other attribute and no earlier draw
\* call of the same Exporter changes them.
C7_LayersIndependent ==
    \A d \in WrittenDraws :
        LET doc == files[FileName(d)]
            names == {InputsOf(d).inputs[n].name : n \in DOMAIN InputsOf(d).inputs}
        IN  /\ \A l \in OptionalLayers :
                  /\ (l[1] \notin names => doc[l[2]] = <<>> /\ doc[l[3]] = <<>>)
                  /\ (l[1] \in names => doc[l[2]] # <<>> /\ doc[l[3]] # <<>>)
                  /\ doc[l[2]] = DocumentWith(d, {l[1]})[l[2]]
                  /\ doc[l[3]] = DocumentWith(d, {l[1]})[l[3]]
            /\ doc.Vertices = DocumentWith(d, {"in_POSITION0"}).Vertices
            /\ doc.PolygonVertexIndex = DocumentWith(d, {}).PolygonVertexIndex

\* a draw call with normals, colours and UVs was exported, and after it, by
\* the same Exporter, one with positions only
C7_Witness ==
    /\ Len(writes) >= 2
    /\ writes[1] \notin ConstantFiles
    /\ writes[2] \notin ConstantFiles
    /\ files[writes[1]].LayerElementNormal # <<>>
    /\ files[writes[1]].LayerElementTangent = <<>>
    /\ files[writes[1]].LayerElementUV # <<>>
    /\ files[writes[2]].LayerElementNormal = <<>>
    /\ files[writes[2]].LayerElementUVInsert = <<>>
    /\ files[writes[2]].Vertices.num = 9

(***************************************************************************)
(* The request as a whole.                                                 *)
(***************************************************************************)
Messages == {"not a valid start drawcall id", "not a valid end drawcall id",
             "Instanced properties are not supported!",
             "Current Draw Call lack of Vertex"}

\* C8: no exception escapes the replay-thread callback: the Exporter ends
\* with get_result() None or an error message, and finished_callback is
\* called on the UI thread once, with that value.
C8_NoExceptionEscapes ==
    /\ exc = None
    /\ pc # "raised"
    /\ Len(finished) <= 1
    /\ \A n \in DOMAIN finished : finished[n] = result /\ result \in Messages \cup {None}

\* how draw call d of the table ends
Instanced(d) == InputsOf(d).instanced
NoInputs(d) == ~Instanced(d) /\ InputsOf(d).inputs = <<>>
EmptyGeometry(d) ==
    /\ ~Instanced(d) /\ ~NoInputs(d)
    /\ IndicesOf(d).exc = None /\ IndicesOf(d).value = <<>>
Packed(d) ==
    /\ ~Instanced(d) /\ ~NoInputs(d) /\ ~EmptyGeometry(d)
    /\ IndicesOf(d).exc = None
    /\ \E n \in DOMAIN InputsOf(d).inputs : InputsOf(d).inputs[n].format.special
FailsPerDraw(d) == Instanced(d) \/ EmptyGeometry(d) \/ Packed(d)
Exports(d) ==
    /\ ~Instanced(d) /\ ~NoInputs(d)
    /\ IndicesOf(d).exc = None /\ IndicesOf(d).value # <<>>
    /\ LET st == PassOver(InputsOf(d).inputs, IndicesOf(d).value, PassStart)
       IN  st.exc = None /\ build_normal(st.vertex_data, st.value_dict).exc = None

\* the callback on the replay thread is over
Ended == pc \in {"constructed", "returned", "raised"}

\* the range is valid and holds only ids of the table, each a draw call
\* that exports or fails with a per-draw-call error; no texture is saved
PlainRange ==
    /\ pc \notin {"idle", "queued"}
    /\ ~is_save_texture
    /\ startDrawcallId \in drawcalls /\ endDrawcallId \in drawcalls
    /\ \A d \in startDrawcallId..endDrawcallId :
          d \in drawcalls /\ (FailsPerDraw(d) \/ Exports(d))

\* C9: a draw call of the range that fails with a per-draw-call error
\* (bit-packed format, per-instance attribute, empty index sequence) gets no
\* file and leaves a message as the result, no file of a draw call is
\* written twice, and every draw call of the range that does not fail gets
\* its file.
C9_FailureConfined ==
    PlainRange /\ Ended =>
        /\ \A d \in startDrawcallId..endDrawcallId :
              /\ (FailsPerDraw(d) => FileName(d) \notin DOMAIN files /\ result # None)
              /\ (~FailsPerDraw(d) => FileName(d) \in DOMAIN files)
        /\ \A m, n \in DOMAIN writes :
              writes[m] = writes[n] /\ writes[m] \notin ConstantFiles => m = n

\* the ids of the draw-call table, read off the capture: the children, and
\* the root draw calls without children
TableIds ==
    {d \in DOMAIN capture.isChild :
        \/ capture.isChild[d]
        \/ d = Len(capture.isChild)
        \/ ~capture.isChild[d + 1]}

\* C10: when the start id or the end id is not in the draw-call table, the
\* request fails before any draw call is processed: no frame event is set,
\* no buffer fetched, no file written (the directory holds only what calls
\* of export_constants wrote), no texture saved, and get_result() is the
\* message of the id that was not found.
C10_InvalidRange ==
    (startDrawcallId \notin TableIds \/ endDrawcallId \notin TableIds)
    /\ pc \notin {"idle", "queued"} =>
        /\ pc \in {"constructed", "returned"}
        /\ frameEvents = <<>>
        /\ bufferFetches = <<>>
        /\ unpackCalls = <<>>
        /\ DOMAIN files \subseteq ConstantFiles
        /\ \A n \in DOMAIN writes : writes[n] \in ConstantFiles
        /\ dirs = {}
        /\ textureSaves = <<>>
        /\ get_result = IF startDrawcallId \notin TableIds
                        THEN "not a valid start drawcall id"
                        ELSE "not a valid end drawcall id"
        /\ \A n \in DOMAIN finished : finished[n] = get_result

\* a request whose start is a draw call of the table and whose end is a
\* marker with children has handed its message to finished_callback
C10_Witness ==
    /\ startDrawcallId \in TableIds
    /\ endDrawcallId \in DOMAIN capture.isChild
    /\ endDrawcallId \notin TableIds
    /\ finished = <<"not a valid end drawcall id">>

(***************************************************************************)
(* C11.  The indices of a draw call.                                       *)
(***************************************************************************)
\* the unsigned little-endian entry of w bytes at byte offset o of bytes
EntryAt(bytes, o, w) ==
    IF w = 1 THEN bytes[o + 1] ELSE bytes[o + 1] + 256 * bytes[o + 2]

\* the index sequence as the draw call of drawcallId asks for it
IndicesAsked ==
    LET cfg == capture.cfgs[drawcallId]
    IN  IF cfg.ibBound /\ cfg.indexed
        THEN [k \in 1..cfg.numIndices |->
                 EntryAt(cfg.ibBytes, (cfg.indexOffset + k - 1) * cfg.indexByteWidth,
                         cfg.indexByteWidth) + cfg.baseVertex]
        ELSE [k \in 1..cfg.numIndices |-> k - 1]

\* C11: whenever getIndices has returned for the draw call being exported,
\* its result has as many entries as the draw call has indices; with an
\* index buffer bound and the draw call indexed, entry k is the unsigned
\* integer of indexByteStride bytes at byte (indexOffset + k) * indexByteStride
\* of the index data plus baseVertex, and otherwise it is k itself
C11_ResolvedIndices ==
    pc = "dedup" =>
        /\ Len(indices) = capture.cfgs[drawcallId].numIndices
        /\ indices = IndicesAsked

\* an indexed draw call of 2-byte indices, read from the second entry on
\* with a base vertex, has its indices resolved
C11_Witness ==
    /\ pc = "dedup"
    /\ capture.cfgs[drawcallId].ibBound
    /\ capture.cfgs[drawcallId].indexed
    /\ capture.cfgs[drawcallId].indexByteWidth = 2
    /\ capture.cfgs[drawcallId].indexOffset > 0
    /\ capture.cfgs[drawcallId].baseVertex > 0
    /\ Len(indices) >= 2
    /\ indices[1] # indices[2]

(***************************************************************************)
(* C12.  The caches and the compact indices.                               *)
(***************************************************************************)
\* the UV layers: source attribute, fragment
UVLayers ==
    {<<"in_TEXCOORD0", "LayerElementUV">>, <<"in_TEXCOORD1", "LayerElementUV1">>}

\* the input of the pass with the name given
InputNamed(name) ==
    meshInputs[CHOOSE k \in DOMAIN meshInputs : meshInputs[k].name = name]

\* C12: in the deduplication pass the cache of every attribute holds, in
\* insertion order, the original indices in the order of their compact
\* indices (the entry inserted k-th, from 0, is the original index whose
\* compact index is k) and has one entry per distinct original index, so
\* every compact index in the list is a position of the cache and the value
\* there is the decoded value of the original index; in a document written
\* the UV pair that UVIndex[i] selects in a UV layer is the decoded UV of
\* the original index at polygon-vertex i.
C12_CacheOrder ==
    /\ InPass =>
          \A k \in DOMAIN meshInputs :
             LET cache == GetOr(vertex_data, meshInputs[k].name, <<>>)
             IN  /\ Len(cache) = Cardinality({indices[i] : i \in 1..pos})
                 /\ \A n \in DOMAIN cache :
                       /\ cache[n].k \in DOMAIN idx2newIdx
                       /\ idx2newIdx[cache[n].k] = n - 1
                 /\ \A i \in 1..pos :
                       /\ idx_list[i] + 1 \in DOMAIN cache
                       /\ cache[idx_list[i] + 1].k = indices[i]
                       /\ cache[idx_list[i] + 1].v = DecodedAt(meshInputs[k], indices[i])
    /\ JustWrote =>
          \A layer \in UVLayers :
             WrittenDoc[layer[2]] # <<>> =>
                LET uv == WrittenDoc[layer[2]][1].arrays[1].a
                    uvIndex == WrittenDoc[layer[2]][1].arrays[2].a
                IN  /\ Len(uvIndex) = Len(indices)
                    /\ \A i \in DOMAIN indices :
                          /\ uvIndex[i] = StrInt(idx_list[i])
                          /\ 2 * idx_list[i] + 2 <= Len(uv)
                          /\ <<uv[2 * idx_list[i] + 1], uv[2 * idx_list[i] + 2]>>
                             = StrAll(DecodedAt(InputNamed(layer[1]), indices[i]))

\* a document with both UV layers over an index sequence with a repeat,
\* whose compact indices differ from the original ones
C12_Witness ==
    /\ JustWrote
    /\ indices = <<1, 1, 0>>
    /\ WrittenDoc.LayerElementUV # <<>>
    /\ WrittenDoc.LayerElementUV1 # <<>>
    /\ WrittenDoc.LayerElementUV[1].arrays[2].a = <<"0", "0", "1">>
    /\ WrittenDoc.LayerElementUV[1].arrays[1].num = 4
    /\ WrittenDoc.LayerElementUV[1].arrays[1].a[1]
           # WrittenDoc.LayerElementUV[1].arrays[1].a[3]

====
